---- MODULE Spec2Model ----
(***************************************************************************)
(* Model of vedo/assembly.py: the Assembly composite (a vtkAssembly that   *)
(* also keeps a Python list self.actors) and procrustesAlignment.          *)
(*                                                                         *)
(* Python values are encoded as records with the same four fields, so that *)
(* Python's == on them is TLA+ equality:                                   *)
(*   None, an object reference (id into the heap objs), a list of values,  *)
(*   a string (sequence of characters), an int, a reference to an Assembly.*)
(***************************************************************************)
EXTENDS Integers, Sequences, FiniteSets, TLC

\* ---------------------------------------------------------------- bounds
MaxAsm == 2      \* assemblies alive at once
MaxBuilt == 1    \* of which obtained other than by clone()
MaxCalls == 3    \* calls made by the caller in one run
MaxObj == 6      \* renderable objects on the heap (3 given + created ones)
MaxLen == 2      \* length of a list handed to the constructor / __add__
MaxSrc == 3      \* number of sources handed to procrustesAlignment
MaxIdx == 3      \* largest |i| tried with unpack(i)

\* ---------------------------------------------------------------- values
None == [k |-> "none", id |-> 0, items |-> <<>>, s |-> <<>>]
Obj(i) == [k |-> "obj", id |-> i, items |-> <<>>, s |-> <<>>]
List(xs) == [k |-> "list", id |-> 0, items |-> xs, s |-> <<>>]
Str(cs) == [k |-> "str", id |-> 0, items |-> <<>>, s |-> cs]
IntV(n) == [k |-> "int", id |-> n, items |-> <<>>, s |-> <<>>]
AsmRef(n) == [k |-> "asm", id |-> n, items |-> <<>>, s |-> <<>>]

SeqsUpTo(S, n) == UNION {[1..m -> S] : m \in 0..n}

\* ---------------------------------------------------------------- state
VARIABLES objs, props, asms, built, ncalls, last

vars == <<objs, props, asms, built, ncalls, last>>

\* visual property set of a renderable (a vtkProperty), as last configured
DefaultProp == [style |-> "default", ambient |-> 0, diffuse |-> 0,
                specular |-> 0, specularPower |-> 0, specularColor |-> "none"]

LightingArgs == {
    [style |-> "metallic", ambient |-> 0, diffuse |-> 0,
     specular |-> 0, specularPower |-> 0, specularColor |-> "none"],
    [style |-> "", ambient |-> 1, diffuse |-> 1,
     specular |-> 1, specularPower |-> 10, specularColor |-> "white"] }

\* the renderables the caller owns before any call: two named point sets of
\* 2 points, and one unnamed point set of 3 points exposing base/top
GivenObjs == <<
    [hasName |-> TRUE,  name |-> <<"a", "b">>, npts |-> 2, prop |-> 1,
     hasTop |-> FALSE, origin |-> [t |-> "given", of |-> 0, i |-> 0]],
    [hasName |-> TRUE,  name |-> <<"b">>,      npts |-> 2, prop |-> 2,
     hasTop |-> FALSE, origin |-> [t |-> "given", of |-> 0, i |-> 0]],
    [hasName |-> FALSE, name |-> <<>>,         npts |-> 3, prop |-> 3,
     hasTop |-> TRUE,  origin |-> [t |-> "given", of |-> 0, i |-> 0]] >>

NoCall == [op |-> "init", self |-> 0, arg |-> None, ret |-> None, exc |-> "",
           calls |-> <<>>, cfg |-> DefaultProp,
           rigid |-> FALSE, grouped |-> <<>>, logged |-> FALSE, updated |-> FALSE]

Init ==
    /\ objs = GivenObjs
    /\ props = <<DefaultProp, DefaultProp, DefaultProp>>
    /\ asms = <<>>
    /\ built = 0
    /\ ncalls = 0
    /\ last = NoCall

\* ---------------------------------------------------------------- helpers
\* utils.flatten: left-to-right flattening of nested lists
RECURSIVE flatten(_)
flatten(xs) ==
    IF xs = <<>> THEN <<>>
    ELSE LET h == Head(xs)
         IN (IF h.k = "list" THEN flatten(h.items) ELSE <<h>>) \o flatten(Tail(xs))

\* Python truthiness of a value: None and the empty list are falsy
Truthy(v) == ~(v.k = "none" \/ (v.k = "list" /\ v.items = <<>>))

\* vtkAssembly.AddPart: takes a prop; a prop already present is not added
\* again; anything that is not a prop is rejected with a TypeError
AddPart(parts, v) ==
    IF v.k # "obj" THEN [exc |-> "TypeError", parts |-> parts]
    ELSE IF \E j \in 1..Len(parts) : parts[j] = v.id
         THEN [exc |-> "", parts |-> parts]
         ELSE [exc |-> "", parts |-> Append(parts, v.id)]

\* for a in xs: [if a:] self.AddPart(a)   (guarded: the constructor's loop)
RECURSIVE AddParts(_, _, _)
AddParts(parts, xs, guarded) ==
    IF xs = <<>> THEN [exc |-> "", parts |-> parts]
    ELSE IF guarded /\ ~Truthy(Head(xs)) THEN AddParts(parts, Tail(xs), guarded)
    ELSE LET r == AddPart(parts, Head(xs))
         IN IF r.exc # "" THEN r ELSE AddParts(r.parts, Tail(xs), guarded)

\* ---------------------------------------------------------------- Assembly
\* Assembly.__init__(self, *meshs): args is the tuple of positional arguments.
\* base and top hold the id of the object whose base/top were copied (0: None).
\* A constructor that raises leaves no Assembly behind.
Assembly_init(args, heap) ==
    LET meshs == IF Len(args) = 1 THEN args[1] ELSE List(flatten(args))
    IN IF meshs.k # "list"
       THEN [exc |-> "TypeError", asm |-> None]      \* len() of a non-sequence
       ELSE LET first == IF meshs.items = <<>> THEN None ELSE meshs.items[1]
                anchored == first.k = "obj" /\ heap[first.id].hasTop
                r == AddParts(<<>>, meshs.items, TRUE)
            IN [exc |-> r.exc,
                asm |-> [actors |-> meshs.items,
                         parts |-> r.parts,
                         base |-> IF anchored THEN first.id ELSE 0,
                         top |-> IF anchored THEN first.id ELSE 0,
                         transform |-> "",
                         mean |-> 0]]

\* inputs of the constructor: None, given objects, and lists nested twice
GivenRefs == {Obj(i) : i \in 1..Len(GivenObjs)}
Atoms == {None} \cup GivenRefs
FlatLists == {List(xs) : xs \in SeqsUpTo(Atoms, MaxLen)}
NestedLists == {List(xs) : xs \in SeqsUpTo(Atoms \cup {List(<<>>)}, MaxLen)}
                 \cup {List(<<List(xs), c>>) : xs \in SeqsUpTo(GivenRefs, MaxLen), c \in GivenRefs}
CtorArgs == {<<>>} \cup {<<x>> : x \in Atoms \cup NestedLists}
               \cup {<<x, y>> : x \in FlatLists, y \in Atoms}
               \cup {<<x, y>> : x \in Atoms, y \in Atoms}

Called == ncalls < MaxCalls /\ ncalls' = ncalls + 1

Construct ==
    /\ Called
    /\ Len(asms) < MaxAsm
    /\ built < MaxBuilt
    /\ \E args \in CtorArgs :
         LET r == Assembly_init(args, objs)
         IN /\ asms' = IF r.exc = "" THEN Append(asms, r.asm) ELSE asms
            /\ built' = IF r.exc = "" THEN built + 1 ELSE built
            /\ last' = [NoCall EXCEPT !.op = "construct", !.arg = List(args),
                          !.exc = r.exc,
                          !.ret = IF r.exc = "" THEN AsmRef(Len(asms) + 1) ELSE None]
    /\ UNCHANGED <<objs, props>>

\* Assembly.__add__(self, meshs): returns self
Assembly_add(asm, meshs) ==
    LET r == IF meshs.k = "list" THEN AddParts(asm.parts, meshs.items, FALSE)
             ELSE AddPart(asm.parts, meshs)
    IN [exc |-> r.exc, asm |-> [asm EXCEPT !.parts = r.parts]]

AddInputs == GivenRefs \cup {List(xs) : xs \in SeqsUpTo(GivenRefs, MaxLen)}

Add ==
    /\ Called
    /\ \E n \in 1..Len(asms), meshs \in AddInputs :
         LET r == Assembly_add(asms[n], meshs)
         IN /\ asms' = [asms EXCEPT ![n] = r.asm]
            /\ last' = [NoCall EXCEPT !.op = "add", !.self = n, !.arg = meshs,
                          !.exc = r.exc,
                          !.ret = IF r.exc = "" THEN AsmRef(n) ELSE None]
    /\ UNCHANGED <<objs, props, built>>

\* Assembly.__contains__(self, name): Python's "name in self.actors"
Assembly_contains(asm, name) ==
    \E j \in 1..Len(asm.actors) : asm.actors[j] = name

Names == {<<"a">>, <<"b">>, <<"a", "b">>, <<"b", "a">>}
ContainsInputs == Atoms \cup {Str(cs) : cs \in Names} \cup {List(<<>>)}

Contains ==
    /\ Called
    /\ \E n \in 1..Len(asms), name \in ContainsInputs :
         last' = [NoCall EXCEPT !.op = "contains", !.self = n, !.arg = name,
                    !.ret = IF Assembly_contains(asms[n], name)
                            THEN IntV(1) ELSE IntV(0)]
    /\ UNCHANGED <<objs, props, asms, built>>

\* "i in m.name" for strings held as sequences of characters
IsSubstring(cs, nm) ==
    \E j \in 0..(Len(nm) - Len(cs)) : SubSeq(nm, j + 1, j + Len(cs)) = cs

\* for m in self.actors: if i in m.name: return m       (falls through: None)
\* an entry without a name attribute (None, a list, an unnamed prop) raises
RECURSIVE unpackByName(_, _, _)
unpackByName(actors, cs, heap) ==
    IF actors = <<>> THEN [exc |-> "", ret |-> None]
    ELSE LET m == Head(actors)
         IN IF m.k # "obj" \/ ~heap[m.id].hasName
            THEN [exc |-> "AttributeError", ret |-> None]
            ELSE IF IsSubstring(cs, heap[m.id].name)
                 THEN [exc |-> "", ret |-> m]
                 ELSE unpackByName(Tail(actors), cs, heap)

\* variant of unpack: an index past the end yields None instead of raising
Assembly_unpack_noRangeError(asm, i, heap) ==
    LET n == Len(asm.actors)
    IN CASE i.k = "none" -> [exc |-> "", ret |-> List(asm.actors)]
         [] i.k = "int" ->
              IF 0 <= i.id /\ i.id < n THEN [exc |-> "", ret |-> asm.actors[i.id + 1]]
              ELSE IF i.id < 0 /\ -n <= i.id
                   THEN [exc |-> "", ret |-> asm.actors[n + i.id + 1]]
                   ELSE [exc |-> "", ret |-> None]
         [] i.k = "str" -> unpackByName(asm.actors, i.s, heap)
         [] OTHER -> [exc |-> "", ret |-> None]

\* Assembly.unpack(self, i=None); self.actors[i] is Python list indexing
Assembly_unpack(asm, i, heap) ==
    LET n == Len(asm.actors)
    IN CASE i.k = "none" -> [exc |-> "", ret |-> List(asm.actors)]
         [] i.k = "int" ->
              IF 0 <= i.id /\ i.id < n THEN [exc |-> "", ret |-> asm.actors[i.id + 1]]
              ELSE IF i.id < 0 /\ -n <= i.id
                   THEN [exc |-> "", ret |-> asm.actors[n + i.id + 1]]
                   ELSE [exc |-> "IndexError", ret |-> None]
         [] i.k = "str" -> unpackByName(asm.actors, i.s, heap)
         [] OTHER -> [exc |-> "", ret |-> None]

UnpackInputs == {None} \cup {IntV(j) : j \in (-MaxIdx)..MaxIdx}
                  \cup {Str(cs) : cs \in Names} \cup {List(<<>>)}

Unpack ==
    /\ Called
    /\ \E n \in 1..Len(asms), i \in UnpackInputs :
         LET r == Assembly_unpack(asms[n], i, objs)
         IN last' = [NoCall EXCEPT !.op = "unpack", !.self = n, !.arg = i,
                       !.exc = r.exc, !.ret = r.ret]
    /\ UNCHANGED <<objs, props, asms, built>>

\* Mesh.lighting(...) of one part: configures the part's own property object
Mesh_lighting(ps, o, cfg) == [ps EXCEPT ![o.prop] = cfg]

\* for a in self.actors: a.lighting(style, ambient, ...)
RECURSIVE lightingLoop(_, _, _, _, _)
lightingLoop(actors, cfg, heap, ps, calls) ==
    IF actors = <<>> THEN [exc |-> "", props |-> ps, calls |-> calls]
    ELSE LET a == Head(actors)
         IN IF a.k # "obj"
            THEN [exc |-> "AttributeError", props |-> ps, calls |-> calls]
            ELSE lightingLoop(Tail(actors), cfg, heap,
                              Mesh_lighting(ps, heap[a.id], cfg),
                              Append(calls, [obj |-> a.id, cfg |-> cfg]))

\* Assembly.lighting(self, style, ambient, diffuse, specular, specularPower,
\* specularColor): returns self
Assembly_lighting(asm, cfg, heap, ps) == lightingLoop(asm.actors, cfg, heap, ps, <<>>)

Lighting ==
    /\ Called
    /\ \E n \in 1..Len(asms), cfg \in LightingArgs :
         LET r == Assembly_lighting(asms[n], cfg, objs, props)
         IN /\ props' = r.props
            /\ last' = [NoCall EXCEPT !.op = "lighting", !.self = n, !.cfg = cfg,
                          !.calls = r.calls, !.exc = r.exc,
                          !.ret = IF r.exc = "" THEN AsmRef(n) ELSE None]
    /\ UNCHANGED <<objs, asms, built>>

\* Mesh.clone() of one part: a new object with the same content and its own
\* copy of the property set
Mesh_clone(o, id, newprop) ==
    [o EXCEPT !.prop = newprop, !.origin = [t |-> "clone", of |-> id, i |-> 0]]

\* Assembly.clone(self): newlist = [a.clone() for a in self.actors];
\* return Assembly(newlist).  An entry that is not an object has no clone().
Assembly_clone(asm, heap, ps) ==
    LET n == Len(asm.actors)
    IN IF \E j \in 1..n : asm.actors[j].k # "obj"
       THEN [exc |-> "AttributeError", asm |-> None, objs |-> heap, props |-> ps]
       ELSE LET made == [j \in 1..n |->
                           Mesh_clone(heap[asm.actors[j].id], asm.actors[j].id, Len(ps) + j)]
                copied == [j \in 1..n |-> ps[heap[asm.actors[j].id].prop]]
                newlist == [j \in 1..n |-> Obj(Len(heap) + j)]
                r == Assembly_init(<<List(newlist)>>, heap \o made)
            IN [exc |-> r.exc, asm |-> r.asm, objs |-> heap \o made, props |-> ps \o copied]

Clone ==
    /\ Called
    /\ \E n \in 1..Len(asms) :
         LET r == Assembly_clone(asms[n], objs, props)
         IN /\ r.exc = "" => (Len(asms) < MaxAsm /\ Len(r.objs) <= MaxObj)
            /\ objs' = r.objs
            /\ props' = r.props
            /\ asms' = IF r.exc = "" THEN Append(asms, r.asm) ELSE asms
            /\ last' = [NoCall EXCEPT !.op = "clone", !.self = n, !.exc = r.exc,
                          !.ret = IF r.exc = "" THEN AsmRef(Len(asms) + 1) ELSE None]
    /\ UNCHANGED built

\* ---------------------------------------------------------------- alignment
\* variant of the validation loop: the error is logged but not raised
groupLoop_noRaise(sources, j, heap, grouped) ==
    [exc |-> "",
     logged |-> \E m \in 1..Len(sources) : heap[sources[1]].npts # heap[sources[m]].npts,
     grouped |-> sources]

\* for source in sources: if sources[0].N() != source.N(): error, raise;
\*                        group.AddInputData(source.polydata())
RECURSIVE groupLoop(_, _, _, _)
groupLoop(sources, j, heap, grouped) ==
    IF j > Len(sources) THEN [exc |-> "", logged |-> FALSE, grouped |-> grouped]
    ELSE IF heap[sources[1]].npts # heap[sources[j]].npts
         THEN [exc |-> "RuntimeError", logged |-> TRUE, grouped |-> grouped]
         ELSE groupLoop(sources, j + 1, heap, Append(grouped, sources[j]))

\* variant of the wrapping step: the source's name is not carried over
alignedMesh_noName(heap, sid, i) ==
    [hasName |-> TRUE,
     name |-> <<>>,
     npts |-> heap[sid].npts,
     prop |-> heap[sid].prop,
     hasTop |-> FALSE,
     origin |-> [t |-> "block", of |-> sid, i |-> i]]

\* mesh = Mesh(poly); mesh.SetProperty(s.GetProperty()); name copied if present.
\* poly is block i of the filter's output, which has the points of source i;
\* SetProperty stores the reference to the source's property object.
alignedMesh(heap, sid, i) ==
    [hasName |-> TRUE,
     name |-> IF heap[sid].hasName THEN heap[sid].name ELSE <<>>,
     npts |-> heap[sid].npts,
     prop |-> heap[sid].prop,
     hasTop |-> FALSE,
     origin |-> [t |-> "block", of |-> sid, i |-> i]]

\* procrustesAlignment(sources, rigid=False); sources are heap ids
procrustesAlignment(sources, rigid, heap) ==
    LET g == groupLoop(sources, 1, heap, <<>>)
        n == Len(sources)
    IN IF g.exc # ""
       THEN [exc |-> g.exc, logged |-> g.logged, grouped |-> g.grouped,
             updated |-> FALSE, asm |-> None, objs |-> heap]
       ELSE LET made == [j \in 1..n |-> alignedMesh(heap, sources[j], j - 1)]
                acts == [j \in 1..n |-> Obj(Len(heap) + j)]
                r == Assembly_init(<<List(acts)>>, heap \o made)
            IN [exc |-> r.exc, logged |-> FALSE, grouped |-> g.grouped,
                updated |-> TRUE,
                asm |-> IF r.exc # "" THEN None
                        ELSE [r.asm EXCEPT
                                !.transform = IF rigid THEN "RigidBody" ELSE "Similarity",
                                !.mean = heap[sources[1]].npts],
                objs |-> heap \o made]

SourceLists == SeqsUpTo(1..Len(GivenObjs), MaxSrc) \ {<<>>}

Procrustes ==
    /\ Called
    /\ built < MaxBuilt
    /\ \E sources \in SourceLists, rigid \in BOOLEAN :
         LET r == procrustesAlignment(sources, rigid, objs)
         IN /\ r.exc = "" => (Len(asms) < MaxAsm /\ Len(r.objs) <= MaxObj)
            /\ objs' = r.objs
            /\ asms' = IF r.exc = "" THEN Append(asms, r.asm) ELSE asms
            /\ built' = IF r.exc = "" THEN built + 1 ELSE built
            /\ last' = [NoCall EXCEPT !.op = "procrustes",
                          !.arg = List([j \in 1..Len(sources) |-> Obj(sources[j])]),
                          !.rigid = rigid, !.exc = r.exc, !.logged = r.logged,
                          !.grouped = r.grouped, !.updated = r.updated,
                          !.ret = IF r.exc = "" THEN AsmRef(Len(asms) + 1) ELSE None]
    /\ UNCHANGED props

Next == Construct \/ Add \/ Contains \/ Clone \/ Unpack \/ Lighting \/ Procrustes

Spec == Init /\ [][Next]_vars

\* alignment calls on the given sources, up to the first Assembly returned
NextAlign == asms = <<>> /\ Procrustes
SpecAlign == Init /\ [][NextAlign]_vars

\* one Assembly is built by the caller and then read with unpack
NextUnpack == (asms = <<>> /\ Construct) \/ Unpack
SpecUnpack == Init /\ [][NextUnpack]_vars

\* ---------------------------------------------------------------- properties
SrcIds(arg) == [j \in 1..Len(arg.items) |-> arg.items[j].id]
Mismatch(src, heap) == \E j \in 1..Len(src) : heap[src[j]].npts # heap[src[1]].npts

\* C2: a call of procrustesAlignment on sources of which one has a point count
\* other than the first source's raises RuntimeError after logging an error,
\* never runs the filter's Update, and makes no Assembly and no mesh, wherever
\* the offending source stands in the list.
C2_MismatchRaises ==
    [][ (last'.op = "procrustes" /\ Mismatch(SrcIds(last'.arg), objs))
          => /\ last'.exc = "RuntimeError"
             /\ last'.logged
             /\ ~last'.updated
             /\ last'.ret = None
             /\ asms' = asms
             /\ objs' = objs ]_vars

\* the offending source is the third of three: the first two were grouped
C2_Witness ==
    /\ last.op = "procrustes"
    /\ Len(last.arg.items) = 3
    /\ objs[last.arg.items[2].id].npts = objs[last.arg.items[1].id].npts
    /\ objs[last.arg.items[3].id].npts # objs[last.arg.items[1].id].npts
    /\ last.exc = "RuntimeError"
    /\ Len(last.grouped) = 2

\* C3: a call of procrustesAlignment on a non-empty list of sources with equal
\* point counts returns an Assembly with exactly len(sources) stored parts;
\* part i is the mesh made from output block i for source i, and has source
\* i's name when source i has one.  A single source is included.
C3_AlignedParts ==
    (last.op = "procrustes" /\ ~Mismatch(SrcIds(last.arg), objs))
      => /\ last.exc = ""
         /\ last.updated
         /\ last.ret.k = "asm"
         /\ LET src == SrcIds(last.arg)
                a == asms[last.ret.id].actors
            IN /\ Len(a) = Len(src)
               /\ \A j \in 1..Len(src) :
                    /\ a[j].k = "obj"
                    /\ objs[a[j].id].origin = [t |-> "block", of |-> src[j], i |-> j - 1]
                    /\ objs[src[j]].hasName
                         => (objs[a[j].id].hasName /\ objs[a[j].id].name = objs[src[j]].name)

\* two different named sources, aligned in the order given
C3_Witness ==
    /\ last.op = "procrustes"
    /\ last.exc = ""
    /\ Len(last.arg.items) >= 2
    /\ last.arg.items[1] # last.arg.items[2]
    /\ objs[last.arg.items[1].id].hasName
    /\ Len(asms[last.ret.id].actors) = Len(last.arg.items)

\* C9: unpack(None) returns the whole stored sequence in order, unpack(i)
\* returns the entry at position i for 0 <= i < length and fails with an
\* IndexError for every i >= length; no unpack call changes the stored sequence.
C9_UnpackByIndex ==
    [][ last'.op = "unpack"
          => /\ asms' = asms
             /\ LET a == asms[last'.self].actors
                    i == last'.arg
                IN /\ i.k = "none" => (last'.exc = "" /\ last'.ret = List(a))
                   /\ (i.k = "int" /\ 0 <= i.id /\ i.id < Len(a))
                        => (last'.exc = "" /\ last'.ret = a[i.id + 1])
                   /\ (i.k = "int" /\ i.id >= Len(a)) => last'.exc = "IndexError" ]_vars

\* an index past the end of a non-empty assembly was refused
C9_Witness ==
    /\ last.op = "unpack"
    /\ last.arg.k = "int"
    /\ Len(asms[last.self].actors) >= 1
    /\ last.arg.id >= Len(asms[last.self].actors)
    /\ last.exc = "IndexError"

\* every stored entry is an object, and no object is stored twice
PlainActors(asm) ==
    /\ \A j \in 1..Len(asm.actors) : asm.actors[j].k = "obj"
    /\ \A j, m \in 1..Len(asm.actors) : asm.actors[j] = asm.actors[m] => j = m

\* every stored entry is None or an object, and no object is stored twice
SimpleActors(asm) ==
    /\ \A j \in 1..Len(asm.actors) : asm.actors[j].k \in {"obj", "none"}
    /\ \A j, m \in 1..Len(asm.actors) :
         (asm.actors[j].k = "obj" /\ asm.actors[j] = asm.actors[m]) => j = m

\* the objects among the stored entries, in order
RECURSIVE ObjectIds(_)
ObjectIds(xs) ==
    IF xs = <<>> THEN <<>>
    ELSE (IF Head(xs).k = "obj" THEN <<Head(xs).id>> ELSE <<>>) \o ObjectIds(Tail(xs))

\* C1: Assembly(...) given one list argument or several arguments, nested in
\* any way, stores the left-to-right flattening of its input, with no list
\* among the stored entries.
C1_StoresFlattened ==
    (last.op = "construct"
       /\ (Len(last.arg.items) = 1 => last.arg.items[1].k = "list"))
      => /\ last.exc = ""
         /\ last.ret.k = "asm"
         /\ asms[last.ret.id].actors = flatten(last.arg.items)
         /\ \A j \in 1..Len(asms[last.ret.id].actors) :
              asms[last.ret.id].actors[j].k # "list"

\* C4: clone() of an assembly built and then grown with + returns another
\* Assembly with as many parts as the original has now; part i of the clone is
\* a clone of part i of the original and is no part of the original.  Stated
\* for assemblies whose stored entries are distinct objects.
C4_CloneCopiesCurrentParts ==
    (last.op = "clone" /\ PlainActors(asms[last.self]))
      => /\ last.exc = ""
         /\ last.ret.k = "asm"
         /\ last.ret.id # last.self
         /\ LET orig == asms[last.self].parts
                made == asms[last.ret.id].parts
            IN /\ Len(made) = Len(orig)
               /\ \A j \in 1..Len(made) :
                    /\ j <= Len(orig)
                         => objs[made[j]].origin = [t |-> "clone", of |-> orig[j], i |-> 0]
                    /\ \A m \in 1..Len(orig) : made[j] # orig[m]

\* C5: asm + x returns asm itself and puts x (or each object of the list x)
\* after the parts held before, so that unpack() then returns the previous
\* sequence followed by the added objects, duplicates included.
C5_AddAppends ==
    [][ last'.op = "add"
          => /\ last'.exc = ""
             /\ last'.ret = AsmRef(last'.self)
             /\ LET added == IF last'.arg.k = "list" THEN last'.arg.items ELSE <<last'.arg>>
                IN Assembly_unpack(asms'[last'.self], None, objs').ret
                     = List(asms[last'.self].actors \o added) ]_vars

\* C6: lighting(...) calls the lighting operation once, with the arguments it
\* was given, on every part of the assembly, parts added with + included, and
\* returns the assembly itself.  Stated for assemblies whose stored entries
\* are distinct objects.
C6_LightingReachesEveryPart ==
    (last.op = "lighting" /\ PlainActors(asms[last.self]))
      => /\ last.exc = ""
         /\ last.ret = AsmRef(last.self)
         /\ \A j \in 1..Len(asms[last.self].parts) :
              Cardinality({c \in 1..Len(last.calls) :
                             last.calls[c] = [obj |-> asms[last.self].parts[j],
                                              cfg |-> last.cfg]}) = 1

\* the first stored part whose name contains cs, or None
RECURSIVE FirstNamed(_, _, _)
FirstNamed(actors, cs, heap) ==
    IF actors = <<>> THEN None
    ELSE IF Head(actors).k = "obj" /\ heap[Head(actors).id].hasName
            /\ IsSubstring(cs, heap[Head(actors).id].name)
         THEN Head(actors)
         ELSE FirstNamed(Tail(actors), cs, heap)

\* every stored object has a name
NamedActors(asm, heap) ==
    \A j \in 1..Len(asm.actors) : asm.actors[j].k = "obj" => heap[asm.actors[j].id].hasName

\* C7: "x in asm" is true exactly when a stored entry equals x (names play no
\* part), while unpack(s) for a string s returns the first part whose name
\* contains s, and returns None without raising when there is none.  The
\* unpack half is stated for assemblies whose stored objects all have a name.
C7_ContainsVersusUnpack ==
    /\ last.op = "contains"
         => (last.ret = IntV(1)
               <=> \E j \in 1..Len(asms[last.self].actors) :
                      asms[last.self].actors[j] = last.arg)
    /\ (last.op = "unpack" /\ last.arg.k = "str" /\ NamedActors(asms[last.self], objs))
         => /\ last.exc = ""
            /\ last.ret = FirstNamed(asms[last.self].actors, last.arg.s, objs)

\* C8: procrustesAlignment leaves its sources as they were, and gives every
\* output mesh a copy of its source's property set: lighting() on the returned
\* Assembly configures the output meshes and no source's property set.
C8_SourcesUntouched ==
    [][ /\ last'.op = "procrustes" => (props' = props /\ SubSeq(objs', 1, Len(objs)) = objs)
        /\ (last'.op = "procrustes" /\ last'.exc = "")
             => \A j \in 1..Len(asms'[last'.ret.id].actors) :
                  LET out == objs'[asms'[last'.ret.id].actors[j].id]
                  IN out.prop # objs'[out.origin.of].prop
        /\ (last'.op = "lighting" /\ asms[last'.self].transform # "" /\ last'.exc = "")
             => \A j \in 1..Len(asms[last'.self].actors) :
                  LET out == objs[asms[last'.self].actors[j].id]
                  IN /\ props'[out.prop] = last'.cfg
                     /\ props'[objs[out.origin.of].prop] = props[objs[out.origin.of].prop] ]_vars

\* C10: the parts registered on the vtkAssembly are, in every reachable state,
\* the non-null entries of self.actors in the same order.  Stated for
\* assemblies whose stored entries are None or distinct objects.
C10_PartsMatchActors ==
    \A n \in 1..Len(asms) :
        SimpleActors(asms[n]) => asms[n].parts = ObjectIds(asms[n].actors)
====
